---- MODULE Spec2Model ----
(***************************************************************************)
(* Joke Battles backend: the vote ledger (backend/database.py) driven by   *)
(* the POST /api/vote handler (backend/main.py), and the joke aggregator   *)
(* (backend/main.py generate_jokes over backend/llm_clients.py).           *)
(***************************************************************************)
EXTENDS Integers, Sequences, FiniteSets, TLC

\* Number of POST /api/vote requests served; all of them may overlap.
NRequests == 2

(***************************************************************************)
(* Text helpers: Python's str.lower() and the `in` test on strings.         *)
(***************************************************************************)
LowerChar(ch) ==
    CASE ch = "A" -> "a" [] ch = "B" -> "b" [] ch = "C" -> "c" [] ch = "D" -> "d"
      [] ch = "E" -> "e" [] ch = "F" -> "f" [] ch = "G" -> "g" [] ch = "H" -> "h"
      [] ch = "I" -> "i" [] ch = "J" -> "j" [] ch = "K" -> "k" [] ch = "L" -> "l"
      [] ch = "M" -> "m" [] ch = "N" -> "n" [] ch = "O" -> "o" [] ch = "P" -> "p"
      [] ch = "Q" -> "q" [] ch = "R" -> "r" [] ch = "S" -> "s" [] ch = "T" -> "t"
      [] ch = "U" -> "u" [] ch = "V" -> "v" [] ch = "W" -> "w" [] ch = "X" -> "x"
      [] ch = "Y" -> "y" [] ch = "Z" -> "z" [] OTHER -> ch

RECURSIVE Lower(_)
Lower(str) ==
    IF Len(str) = 0 THEN ""
    ELSE LowerChar(SubSeq(str, 1, 1)) \o Lower(SubSeq(str, 2, Len(str)))

\* Python: sub in str
Contains(str, sub) ==
    \E i \in 1..(Len(str) - Len(sub) + 1) : SubSeq(str, i, i + Len(sub) - 1) = sub

(***************************************************************************)
(* Storage schema (Database.init_db).                                      *)
(***************************************************************************)
\* model_name VARCHAR(50), session_id VARCHAR(100) in the PostgreSQL table.
ModelNameWidth == 50
SessionIdWidth == 100

\* The four providers get_scores reports.
KnownModels == {"OpenAI", "Anthropic", "Gemini", "Llama"}

\* VoteRequest.model is an unconstrained str: two known providers, a name outside
\* the set, and a name wider than the column.
LongModel == "Llama-but-with-a-model-name-that-is-over-fifty-chars"
ModelInputs == {"OpenAI", "Anthropic", "Mistral", LongModel}
SessionInputs == {"s1", "s2"}

Backends == {"postgres", "sqlite"}

\* Messages of the exceptions the two drivers raise.
MsgSqliteSyntax == "near \"%\": syntax error"
MsgPgUnique == "duplicate key value violates unique constraint \"votes_session_id_key\""
MsgSqliteUnique == "UNIQUE constraint failed: votes.session_id"
MsgPgTooLong == "value too long for type character varying(50)"
MsgPgDown == "could not connect to server: Connection refused"
MsgAlreadyVoted == "Session has already voted"
NoError == ""

VARIABLES
    backend,   \* which engine Database.__init__ selected
    votes,     \* committed rows of the votes table, in insertion (id) order
    now,       \* the wall clock read by datetime.now()
    pc,        \* pc[r]: position of request r in submit_vote / record_vote
    arg,       \* arg[r]: the VoteRequest of r
    tx,        \* tx[r]: the row inserted by r's open transaction, not yet committed
    raised,    \* raised[r]: what record_vote did for r: returned, or the exception message
    resp,      \* resp[r]: HTTP status submit_vote answered to r
    conn       \* conn[r]: the connection r's record_vote got from _get_connection

lvars == <<backend, votes, now, pc, arg, tx, raised, resp, conn>>

VARIABLES
    apiKey,    \* apiKey[p]: the secret LLMClients.__init__ read for provider p
    gpc,       \* position of generate_jokes: idle, gathering, returned, http500
    context,   \* request.context of the invocation
    bpc,       \* bpc[p]: position of the task safe_generate(p): pending, awaiting, done
    outcome,   \* outcome[p]: how p's outbound call ended, "none" while it has not
    body,      \* body[p]: the text in the provider's 200 response
    bres,      \* bres[p]: what the task of p returned (or raised)
    order,     \* providers in the order their tasks completed
    response   \* the list of JokeResponse that generate_jokes returns

avars == <<apiKey, gpc, context, bpc, outcome, body, bres, order, response>>
vars == <<lvars, avars>>

Requests == 1..NRequests
NoArg == [model |-> "", session_id |-> ""]
NoRow == [model_name |-> "", session_id |-> "", timestamp |-> -1]

Rows == {votes[i] : i \in 1..Len(votes)}
RowIndexes(s) == {i \in 1..Len(votes) : votes[i].session_id = s}

(***************************************************************************)
(* What the storage engine answers to each statement.                      *)
(***************************************************************************)
\* A statement carrying %s parameters: sqlite3 takes ? placeholders and
\* rejects the text; psycopg2 fails when the server cannot be reached.
ParamStatementError(up) ==
    IF backend = "sqlite" THEN MsgSqliteSyntax
    ELSE IF ~up THEN MsgPgDown
    ELSE NoError

\* A statement without parameters.
PlainStatementError(up) ==
    IF backend = "postgres" /\ ~up THEN MsgPgDown ELSE NoError

\* UNIQUE(session_id): a committed row of the session exists.
UniqueViolation_NoConstraint(s) == FALSE
UniqueViolation(s) == RowIndexes(s) # {}

UniqueViolationMsg == IF backend = "sqlite" THEN MsgSqliteUnique ELSE MsgPgUnique

\* The exception cursor.execute(INSERT ...) raises, NoError when the row goes in.
InsertError(m, s, up) ==
    IF ParamStatementError(up) # NoError THEN ParamStatementError(up)
    ELSE IF Len(m) > ModelNameWidth \/ Len(s) > SessionIdWidth THEN MsgPgTooLong
    ELSE IF UniqueViolation(s) THEN UniqueViolationMsg
    ELSE NoError

\* PostgreSQL makes an INSERT wait while another open transaction holds an
\* uncommitted row with the same unique key.
Blocked(r, s) == \E q \in Requests \ {r} : tx[q].session_id = s

(***************************************************************************)
(* Database (backend/database.py).                                         *)
(***************************************************************************)
\* has_voted: SELECT COUNT(*) ... WHERE session_id = %s; any exception -> False.
has_voted_MoreThanOne(s, up) ==
    IF ParamStatementError(up) # NoError THEN FALSE
    ELSE Cardinality(RowIndexes(s)) > 1
has_voted(s, up) ==
    IF ParamStatementError(up) # NoError THEN FALSE
    ELSE Cardinality(RowIndexes(s)) > 0

\* record_vote's except clause: the test on str(e).lower().
IsDuplicateMessage_CaseSensitive(msg) ==
    Contains(msg, "Duplicate key") \/ Contains(msg, "Unique constraint")
IsDuplicateMessage(msg) ==
    Contains(Lower(msg), "duplicate key") \/ Contains(Lower(msg), "unique constraint")

Returned == "returned"
NotCalled == "not called"

\* What record_vote raises for the storage exception msg.
RecordVoteRaises_Swallowed(msg) == IF IsDuplicateMessage(msg) THEN MsgAlreadyVoted ELSE Returned
RecordVoteRaises(msg) == IF IsDuplicateMessage(msg) THEN MsgAlreadyVoted ELSE msg

\* SELECT model_name, COUNT(*) FROM votes GROUP BY model_name
GroupCount(m) == Cardinality({i \in 1..Len(votes) : votes[i].model_name = m})
GroupBy == {<<m, GroupCount(m)>> : m \in {r.model_name : r \in Rows}}

ZeroScores == [m \in KnownModels |-> 0]

\* get_scores: the zero mapping overlaid with the counts of the known models.
get_scores_NoMembershipTest(up) ==
    IF PlainStatementError(up) # NoError THEN ZeroScores
    ELSE [m \in KnownModels \cup {g[1] : g \in GroupBy} |->
             IF \E g \in GroupBy : g[1] = m
             THEN (CHOOSE g \in GroupBy : g[1] = m)[2] ELSE 0]
get_scores_OnlyVoted(up) ==
    IF PlainStatementError(up) # NoError THEN ZeroScores
    ELSE [m \in KnownModels \cap {g[1] : g \in GroupBy} |->
             (CHOOSE g \in GroupBy : g[1] = m)[2]]
get_scores(up) ==
    IF PlainStatementError(up) # NoError THEN ZeroScores
    ELSE [m \in KnownModels |->
             IF \E g \in GroupBy : g[1] = m
             THEN (CHOOSE g \in GroupBy : g[1] = m)[2] ELSE ZeroScores[m]]

\* get_total_votes: SELECT COUNT(*) FROM votes; any exception -> 0.
get_total_votes_Unguarded(up) == Len(votes)
get_total_votes(up) ==
    IF PlainStatementError(up) # NoError THEN 0 ELSE Len(votes)

RECURSIVE SumOver(_, _)
SumOver(f, keys) ==
    IF keys = {} THEN 0
    ELSE LET k == CHOOSE x \in keys : TRUE IN f[k] + SumOver(f, keys \ {k})
SumScores(scores) == SumOver(scores, DOMAIN scores)

(***************************************************************************)
(* LLMClients (backend/llm_clients.py).                                    *)
(***************************************************************************)
\* The tasks list and the models list of generate_jokes, in this order.
Providers == <<"OpenAI", "Anthropic", "Gemini", "Llama">>
ProviderSet == {Providers[i] : i \in 1..Len(Providers)}
Position(p) == CHOOSE i \in 1..Len(Providers) : Providers[i] = p

\* generate_llama_joke reads no secret.
NeedsKey(p) == p # "Llama"
\* os.getenv gives None or the value; `not key` is true of None and of "".
KeyValues == {"", "sk-test"}

\* Python: str.strip()
RECURSIVE LStrip(_)
LStrip(str) ==
    IF Len(str) > 0 /\ SubSeq(str, 1, 1) = " " THEN LStrip(SubSeq(str, 2, Len(str)))
    ELSE str
RECURSIVE RStrip(_)
RStrip(str) ==
    IF Len(str) > 0 /\ SubSeq(str, Len(str), Len(str)) = " "
    THEN RStrip(SubSeq(str, 1, Len(str) - 1))
    ELSE str
Strip(str) == RStrip(LStrip(str))

NotConfigured(p) ==
    CASE p = "OpenAI" -> "OpenAI API key not configured"
      [] p = "Anthropic" -> "Anthropic API key not configured"
      [] p = "Gemini" -> "Google API key not configured"

\* response.status != 200
StatusFallback(p) ==
    CASE p = "OpenAI" -> "OpenAI is having trouble thinking of jokes right now!"
      [] p = "Anthropic" -> "Claude is busy perfecting its comedy routine!"
      [] p = "Gemini" -> "Gemini is stargazing instead of joke-making!"
      [] p = "Llama" -> "Llama is busy grazing on comedy grass!"

\* except Exception
ErrorFallback(p) ==
    CASE p = "OpenAI" -> "OpenAI took a comedy break!"
      [] p = "Anthropic" -> "Claude needs more joke practice!"
      [] p = "Gemini" -> "Gemini got lost in the comedy cosmos!"
      [] p = "Llama" -> "Llama is taking a humor siesta!"

\* except aiohttp.ClientError, which generate_llama_joke alone tells apart
ClientErrorFallback(p) ==
    IF p = "Llama" THEN "Llama wandered off from the comedy farm!" ELSE ErrorFallback(p)

\* The total time a request may take: ClientTimeout(total=30) for Llama; the
\* other three sessions are built without a timeout and run under aiohttp's
\* default, ClientTimeout(total=300).
LlamaTimeout == 30
SessionDefaultTimeout == 300
TimeoutOf_Unbounded(p) == IF p = "Llama" THEN LlamaTimeout ELSE 0
TimeoutOf(p) == IF p = "Llama" THEN LlamaTimeout ELSE SessionDefaultTimeout
\* A request with a total timeout can end by exceeding it.
CanTimeOut(p) == TimeoutOf(p) > 0

\* How an outbound call can end: a 200 with a well-formed body, another
\* status, an aiohttp.ClientError, a timeout, a body without the expected fields.
Outcomes == {"ok", "status", "client_error", "timeout", "malformed"}
BodyTexts == {"  Why did the cat nap? ", "Sorry, I know no jokes"}

Value(text) == [exc |-> FALSE, text |-> text]
Raise(what) == [exc |-> TRUE, text |-> what]
NoResult == [exc |-> FALSE, text |-> ""]

\* generate_<provider>_joke without its secret: no request is made.
generate_joke_unconfigured(p) == Value(NotConfigured(p))

\* generate_<provider>_joke once its request has ended with outcome o.
generate_joke_Uncaught(p, o, text) ==
    CASE o = "ok" -> Value(Strip(text))
      [] o = "status" -> Value(StatusFallback(p))
      [] OTHER -> Raise(o)
generate_joke_OnlyClientError(p, o, text) ==
    CASE o = "ok" -> Value(Strip(text))
      [] o = "status" -> Value(StatusFallback(p))
      [] o = "client_error" -> Value(ClientErrorFallback(p))
      [] OTHER -> Raise(o)
generate_joke(p, o, text) ==
    CASE o = "ok" -> Value(Strip(text))
      [] o = "status" -> Value(StatusFallback(p))
      [] o = "client_error" -> Value(ClientErrorFallback(p))
      [] OTHER -> Value(ErrorFallback(p))

(***************************************************************************)
(* POST /api/generate-jokes (backend/main.py generate_jokes).              *)
(***************************************************************************)
\* The text of safe_generate's except clause (its emoji left out).
SafeFallback(p) == "Sorry, " \o p \o " is taking a joke break right now!"

\* safe_generate: the result of func, or the fallback when func raised.
safe_generate(p, res) == IF res.exc THEN Value(SafeFallback(p)) ELSE res

\* A task that finishes changes its own position and no other task's.
CompleteTask_CancelSiblings(states, p, res) ==
    [q \in ProviderSet |->
        IF q = p THEN "done"
        ELSE IF states[q] = "awaiting" /\ res.text \notin {Strip(b) : b \in BodyTexts}
             THEN "cancelled" ELSE states[q]]
CompleteTask(states, p, res) == [states EXCEPT ![p] = "done"]

\* asyncio.gather resumes its caller once every task is done.
JoinReady_FirstCompleted == \E p \in ProviderSet : bpc[p] = "done"
JoinReady == \A p \in ProviderSet : bpc[p] = "done"

\* asyncio.gather's result list: one entry per task, in the order of the
\* tasks list.
GatherResults_CompletionOrder(results, completed) ==
    [i \in 1..Len(completed) |-> results[completed[i]]]
GatherResults(results, completed) ==
    [i \in 1..Len(Providers) |-> results[Providers[i]]]

\* for i, (joke, model) in enumerate(zip(jokes, models)): JokeResponse(...)
FormatResponse(jokes) ==
    [i \in 1..Len(jokes) |-> [id |-> i - 1, content |-> jokes[i].text, model |-> Providers[i]]]

(***************************************************************************)
(* POST /api/vote (backend/main.py submit_vote).                           *)
(***************************************************************************)
\* The status submit_vote answers once record_vote returned or raised:
\* every exception that is not an HTTPException becomes a 500.
SubmitVoteStatus_AlwaysSuccess(ended) == 200
SubmitVoteStatus(ended) == IF ended = Returned THEN 200 ELSE 500

\* _get_connection: sqlite3.connect opens the local file; psycopg2.connect
\* raises when the server cannot be reached.
Connect(up) == IF backend = "sqlite" \/ up THEN "open" ELSE "none"

\* Leaving `with self._get_connection() as conn:`. The context manager of a
\* psycopg2 or sqlite3 connection commits or rolls back the transaction; it
\* does not close the connection, and no statement of Database calls close().
WithExit(c) == c

LInit ==
    /\ backend \in Backends
    /\ votes = <<>>
    /\ now = 0
    /\ pc = [r \in Requests |-> "idle"]
    /\ arg = [r \in Requests |-> NoArg]
    /\ tx = [r \in Requests |-> NoRow]
    /\ raised = [r \in Requests |-> NotCalled]
    /\ resp = [r \in Requests |-> 0]
    /\ conn = [r \in Requests |-> "none"]

\* The table after a read operation: its SELECT, answered or failed, and the
\* commit or rollback on leaving the with-block write nothing.
AfterRead_EmptiedOnFailure(rows, up) == IF up THEN rows ELSE <<>>
AfterRead(rows, up) == rows

\* submit_vote up to the call of record_vote: has_voted, then 400 or go on.
SubmitVote(r) ==
    /\ pc[r] = "idle"
    /\ \E m \in ModelInputs, s \in SessionInputs, up \in BOOLEAN :
          /\ arg' = [arg EXCEPT ![r] = [model |-> m, session_id |-> s]]
          /\ votes' = AfterRead(votes, up)
          /\ IF has_voted(s, up)
             THEN /\ pc' = [pc EXCEPT ![r] = "done"]
                  /\ resp' = [resp EXCEPT ![r] = 400]
             ELSE /\ pc' = [pc EXCEPT ![r] = "record_vote"]
                  /\ UNCHANGED resp
    /\ UNCHANGED <<backend, now, tx, raised, conn>>
    /\ UNCHANGED avars

\* record_vote: connect and execute the INSERT with timestamp datetime.now().
RecordVoteInsert(r) ==
    /\ pc[r] = "record_vote"
    /\ \E up \in BOOLEAN :
          LET m == arg[r].model
              s == arg[r].session_id
              err == InsertError(m, s, up)
          IN  /\ err = NoError => ~Blocked(r, s)
              /\ now' = now + 1
              /\ IF err = NoError
                 THEN /\ tx' = [tx EXCEPT ![r] =
                                  [model_name |-> m, session_id |-> s, timestamp |-> now]]
                      /\ pc' = [pc EXCEPT ![r] = "commit"]
                      /\ conn' = [conn EXCEPT ![r] = Connect(up)]
                      /\ UNCHANGED <<raised, resp>>
                 ELSE /\ raised' = [raised EXCEPT ![r] = RecordVoteRaises(err)]
                      /\ resp' = [resp EXCEPT ![r] = SubmitVoteStatus(RecordVoteRaises(err))]
                      /\ pc' = [pc EXCEPT ![r] = "done"]
                      /\ conn' = [conn EXCEPT ![r] = WithExit(Connect(up))]
                      /\ UNCHANGED tx
    /\ UNCHANGED <<backend, votes, arg>>
    /\ UNCHANGED avars

\* The table after the transaction's INSERT is committed: one more row, the
\* others as they were.
InsertCommitted_UpsertByModel(rows, row) ==
    IF \E i \in 1..Len(rows) : rows[i].model_name = row.model_name
    THEN [rows EXCEPT ![CHOOSE i \in 1..Len(rows) : rows[i].model_name = row.model_name] = row]
    ELSE Append(rows, row)
InsertCommitted(rows, row) == Append(rows, row)

\* record_vote: conn.commit(), then return; a failed commit rolls back and raises.
RecordVoteCommit(r) ==
    /\ pc[r] = "commit"
    /\ \E up \in BOOLEAN :
          /\ votes' = IF up THEN InsertCommitted(votes, tx[r]) ELSE votes
          /\ raised' = [raised EXCEPT ![r] = IF up THEN Returned ELSE MsgPgDown]
          /\ resp' = [resp EXCEPT ![r] = SubmitVoteStatus(IF up THEN Returned ELSE MsgPgDown)]
    /\ tx' = [tx EXCEPT ![r] = NoRow]
    /\ conn' = [conn EXCEPT ![r] = WithExit(conn[r])]
    /\ pc' = [pc EXCEPT ![r] = "done"]
    /\ UNCHANGED <<backend, now, arg>>
    /\ UNCHANGED avars

LNext ==
    \E r \in Requests :
        \/ SubmitVote(r)
        \/ RecordVoteInsert(r)
        \/ RecordVoteCommit(r)

\* GET /api/scores: db.get_scores(); the scores go to the caller and no
\* state of the server keeps them.
GetScores ==
    /\ \E up \in BOOLEAN :
          /\ DOMAIN get_scores(up) = KnownModels
          /\ votes' = AfterRead(votes, up)
    /\ UNCHANGED <<backend, now, pc, arg, tx, raised, resp, conn>>
    /\ UNCHANGED avars

\* A call of Database.get_total_votes.
GetTotalVotes ==
    /\ \E up \in BOOLEAN :
          /\ get_total_votes(up) \in Nat
          /\ votes' = AfterRead(votes, up)
    /\ UNCHANGED <<backend, now, pc, arg, tx, raised, resp, conn>>
    /\ UNCHANGED avars

\* The vote requests together with the reads of the ledger.
LedgerNext ==
    \/ LNext
    \/ GetScores
    \/ GetTotalVotes

AInit ==
    /\ apiKey \in [{p \in ProviderSet : NeedsKey(p)} -> KeyValues]
    /\ gpc = "idle"
    /\ context = ""
    /\ bpc = [p \in ProviderSet |-> "idle"]
    /\ outcome = [p \in ProviderSet |-> "none"]
    /\ body = [p \in ProviderSet |-> ""]
    /\ bres = [p \in ProviderSet |-> NoResult]
    /\ order = <<>>
    /\ response = <<>>

\* generate_jokes up to the await of asyncio.gather: the four tasks exist.
GenerateJokes ==
    /\ gpc = "idle"
    /\ \E topic \in {"cats", "dogs"} : context' = topic
    /\ gpc' = "gathering"
    /\ bpc' = [p \in ProviderSet |-> "pending"]
    /\ UNCHANGED <<apiKey, outcome, body, bres, order, response>>
    /\ UNCHANGED lvars

\* `if not self.<provider>_api_key`, the first statement of the three
\* generate_*_joke that read a secret.
SecretAbsent_NotTested(p) == FALSE
SecretAbsent(p) == NeedsKey(p) /\ apiKey[p] = ""

\* The task of p runs to its first suspension: without the secret it returns
\* at once, otherwise it posts its request and waits.
TaskStart(p) ==
    /\ gpc = "gathering"
    /\ bpc[p] = "pending"
    /\ IF SecretAbsent(p)
       THEN LET res == safe_generate(p, generate_joke_unconfigured(p))
            IN  /\ bres' = [bres EXCEPT ![p] = res]
                /\ bpc' = CompleteTask(bpc, p, res)
                /\ order' = Append(order, p)
       ELSE /\ bpc' = [bpc EXCEPT ![p] = "awaiting"]
            /\ UNCHANGED <<bres, order>>
    /\ UNCHANGED <<apiKey, gpc, context, outcome, body, response>>
    /\ UNCHANGED lvars

\* The request of p ends (response, error or timeout) and its task returns.
\* Only a 200 response has a body that is read.
TaskComplete(p) ==
    /\ bpc[p] = "awaiting"
    /\ \E o \in Outcomes, text \in BodyTexts :
          LET res == safe_generate(p, generate_joke(p, o, text))
          IN  /\ o # "ok" => text = CHOOSE b \in BodyTexts : TRUE
              /\ o = "timeout" => CanTimeOut(p)
              /\ outcome' = [outcome EXCEPT ![p] = o]
              /\ body' = [body EXCEPT ![p] = IF o = "ok" THEN text ELSE ""]
              /\ bres' = [bres EXCEPT ![p] = res]
              /\ bpc' = CompleteTask(bpc, p, res)
              /\ order' = Append(order, p)
    /\ UNCHANGED <<apiKey, gpc, context, response>>
    /\ UNCHANGED lvars

\* asyncio.gather returns (or re-raises a task's exception, which the outer
\* except turns into HTTP 500) and the response list is built.
ReturnJokes ==
    /\ gpc = "gathering"
    /\ JoinReady
    /\ IF \E p \in ProviderSet : bres[p].exc
       THEN /\ gpc' = "http500"
            /\ UNCHANGED response
       ELSE /\ gpc' = "returned"
            /\ response' = FormatResponse(GatherResults(bres, order))
    /\ UNCHANGED <<apiKey, context, bpc, outcome, body, bres, order>>
    /\ UNCHANGED lvars

ANext ==
    \/ GenerateJokes
    \/ \E p \in ProviderSet : TaskStart(p)
    \/ \E p \in ProviderSet : TaskComplete(p)
    \/ ReturnJokes

\* The vote ledger under concurrent POST /api/vote requests; no invocation of
\* generate_jokes is under way.
Init ==
    /\ LInit
    /\ AInit
    /\ \A p \in DOMAIN apiKey : apiKey[p] = "sk-test"

Spec == Init /\ [][LNext]_vars

\* The ledger under concurrent vote requests and reads.
LedgerSpec == Init /\ [][LedgerNext]_vars

\* One invocation of generate_jokes; no vote request is under way.
AggregatorInit ==
    /\ AInit
    /\ LInit
    /\ backend = "postgres"

AggregatorSpec == AggregatorInit /\ [][ANext]_vars

\* The request of p ends by exceeding its total timeout.
TaskTimeout(p) == TaskComplete(p) /\ outcome'[p] = "timeout"

\* The event loop runs every task that is ready and resumes the caller of
\* asyncio.gather; a provider may never answer, and what then ends the wait
\* is the timer of the request, where the request has one.
AggregatorFairness ==
    /\ \A p \in ProviderSet : WF_vars(TaskStart(p))
    /\ \A p \in ProviderSet : WF_vars(TaskTimeout(p))
    /\ WF_vars(ReturnJokes)

AggregatorFairSpec == AggregatorInit /\ [][ANext]_vars /\ AggregatorFairness

(***************************************************************************)
(* Properties of the vote ledger.                                          *)
(***************************************************************************)
Done(r) == pc[r] = "done"
\* r's record_vote call completed (returned or raised).
CalledRecordVote(r) == Done(r) /\ raised[r] # NotCalled
\* r's record_vote met a failure of the environment: the server was
\* unreachable, or a value did not fit its column.
EnvironmentFailure(r) == raised[r] \in {MsgPgDown, MsgPgTooLong}
UnknownRows == {i \in 1..Len(votes) : votes[i].model_name \notin KnownModels}

\* C1: in every reachable state the votes table holds at most one row per
\* session_id, whatever has_voted answered to the requests that went on to
\* record_vote.
C1_OneRowPerSession ==
    \A s \in SessionInputs : Cardinality(RowIndexes(s)) <= 1

\* C1 witness: a request that has_voted let through (a race or a storage
\* failure) reached the INSERT for a session that already had its row, and
\* was refused.
C1_Witness ==
    \E r \in Requests :
        /\ raised[r] = MsgAlreadyVoted
        /\ Cardinality(RowIndexes(arg[r].session_id)) = 1

\* C2 (as claimed): when two record_vote calls for the same session, with no
\* row from anyone else and no failure of the environment, have both
\* completed, exactly one returned and the other raised the duplicate-vote
\* error, and exactly one row exists for the session.
C2_ExactlyOneSuccess ==
    \A r, q \in Requests :
        ( /\ r # q
          /\ CalledRecordVote(r) /\ CalledRecordVote(q)
          /\ arg[r].session_id = arg[q].session_id
          /\ ~EnvironmentFailure(r) /\ ~EnvironmentFailure(q)
          /\ \A o \in Requests \ {r, q} :
                ~(raised[o] = Returned /\ arg[o].session_id = arg[r].session_id) )
        => /\ {raised[r], raised[q]} = {Returned, MsgAlreadyVoted}
           /\ Cardinality(RowIndexes(arg[r].session_id)) = 1

\* C5 (as claimed): get_total_votes() equals the sum of the values of
\* get_scores() in every reachable state, whatever model names were voted.
C5_TotalEqualsSum ==
    get_total_votes(TRUE) = SumScores(get_scores(TRUE))

\* C5 (amended): when both reads succeed, get_total_votes() equals the sum of
\* the values of get_scores() plus the number of rows whose model_name is
\* outside the four known providers; the two are equal exactly when every
\* recorded vote names a known provider.
C5_TotalEqualsSumPlusUnknown ==
    /\ get_total_votes(TRUE) = SumScores(get_scores(TRUE)) + Cardinality(UnknownRows)
    /\ (UnknownRows = {}) <=> (get_total_votes(TRUE) = SumScores(get_scores(TRUE)))

\* C5 witness: a vote for a known provider and a vote for a name outside the
\* set have both been recorded.
C5_Witness ==
    /\ UnknownRows # {}
    /\ \E i \in 1..Len(votes) : votes[i].model_name \in KnownModels

\* C6 (as claimed): a record_vote for a session that already has its row
\* always fails with the duplicate-vote error and leaves the ledger unchanged.
C6_LaterVoteIsDuplicate ==
    [][\A r \in Requests :
          ( /\ pc[r] = "record_vote"
            /\ RowIndexes(arg[r].session_id) # {}
            /\ pc'[r] # pc[r] )
          => /\ raised'[r] = MsgAlreadyVoted
             /\ votes' = votes]_vars

\* C6 (amended): a record_vote for a session that already has its row never
\* returns normally and leaves the ledger and the scores unchanged; it raises
\* the duplicate-vote error when the INSERT reaches the uniqueness check, and
\* a storage error when the server is unreachable or the model name does not
\* fit its column.
C6_LaterVoteFailsLedgerUnchanged ==
    [][\A r \in Requests :
          ( /\ pc[r] = "record_vote"
            /\ RowIndexes(arg[r].session_id) # {}
            /\ pc'[r] # pc[r] )
          => /\ pc'[r] = "done"
             /\ raised'[r] \in {MsgAlreadyVoted, MsgPgDown, MsgPgTooLong}
             /\ raised'[r] = MsgPgTooLong => Len(arg[r].model) > ModelNameWidth
             /\ raised'[r] = MsgAlreadyVoted => Len(arg[r].model) <= ModelNameWidth
             /\ resp'[r] # 200
             /\ votes' = votes
             /\ get_scores(TRUE)' = get_scores(TRUE)]_vars

\* C6 witness: a session whose row names one model, and a later record_vote
\* for the same session naming another model that was refused as a duplicate.
C6_Witness ==
    \E r \in Requests, i \in 1..Len(votes) :
        /\ raised[r] = MsgAlreadyVoted
        /\ votes[i].session_id = arg[r].session_id
        /\ votes[i].model_name # arg[r].model
        /\ get_scores(TRUE)[votes[i].model_name] = 1

\* C7 (as claimed): has_voted(s) is false before any vote for s is recorded
\* and true in every state after a record_vote for s has succeeded.
C7_HasVotedIffRecorded ==
    \A s \in SessionInputs, up \in BOOLEAN :
        has_voted(s, up) <=> (\E r \in Requests : raised[r] = Returned /\ arg[r].session_id = s)

\* C7 (amended): has_voted(s) is false in every state before a vote for s is
\* recorded; after a record_vote for s has succeeded it is true whenever its
\* own query succeeds, and false when the storage cannot be reached.
C7_HasVotedIffRecordedWhenReachable ==
    \A s \in SessionInputs :
        LET recorded == \E r \in Requests : raised[r] = Returned /\ arg[r].session_id = s
        IN  /\ has_voted(s, TRUE) <=> recorded
            /\ ~has_voted(s, FALSE)

\* C7 witness: one session has its vote recorded and another has none.
C7_Witness ==
    \E r \in Requests, s \in SessionInputs :
        /\ raised[r] = Returned
        /\ has_voted(arg[r].session_id, TRUE)
        /\ s # arg[r].session_id
        /\ ~has_voted(s, TRUE)

\* C8 (as claimed): a POST vote request whose session already has a recorded
\* vote is answered 400, also when it got past has_voted and its INSERT was
\* refused as a duplicate.
C8_DuplicateAnswered400 ==
    \A r \in Requests :
        (Done(r) /\ raised[r] = MsgAlreadyVoted) => resp[r] = 400

(***************************************************************************)
(* Properties of the joke aggregator.                                      *)
(***************************************************************************)
Failed(p) == outcome[p] \in Outcomes \ {"ok"}
Unconfigured(p) == NeedsKey(p) /\ apiKey[p] = ""

\* C3: whatever the outcomes of the providers and the order in which their
\* tasks complete, generate_jokes returns exactly 4 results, and the result at
\* position i has id i, is labelled with the i-th provider of the fixed order
\* and carries what that provider's task produced.
C3_FourResultsInProviderOrder ==
    gpc = "returned" =>
        /\ Len(response) = 4
        /\ \A i \in 1..Len(Providers) :
              /\ response[i].id = i - 1
              /\ response[i].model = Providers[i]
              /\ response[i].content = bres[Providers[i]].text

\* C3 witness: an invocation returned whose tasks completed in another order
\* than the provider order, one provider failed and one had no secret.
C3_Witness ==
    /\ gpc = "returned"
    /\ order # Providers
    /\ \E p \in ProviderSet : Failed(p)
    /\ \E p \in ProviderSet : Unconfigured(p)

\* C4: generate_jokes never raises: a provider's failure is caught inside its
\* own task and replaced by that provider's fixed non-empty fallback string
\* (one for a non-success status, one for an exception), so no task ever
\* returns an exception to the join.
C4_FailuresBecomeFallbacks ==
    /\ gpc # "http500"
    /\ \A p \in ProviderSet :
          bpc[p] = "done" =>
              /\ ~bres[p].exc
              /\ outcome[p] = "status" => bres[p].text = StatusFallback(p)
              /\ outcome[p] = "client_error" => bres[p].text = ClientErrorFallback(p)
              /\ outcome[p] \in {"timeout", "malformed"} => bres[p].text = ErrorFallback(p)
              /\ Failed(p) => Len(bres[p].text) > 0
              /\ (Failed(p) /\ gpc = "returned")
                    => response[Position(p)].content = bres[p].text

\* C4 witness: an invocation returned in which the four providers failed in
\* the four ways: status, connection error, timeout, malformed body.
C4_Witness ==
    /\ gpc = "returned"
    /\ {outcome[p] : p \in ProviderSet} = Outcomes \ {"ok"}

\* C9: generate_jokes returns only in a state where every one of the four
\* tasks has produced its value; it never returns while a task is pending or
\* in flight.
C9_JoinIsBarrier ==
    gpc \in {"returned", "http500"} =>
        \A p \in ProviderSet :
            /\ bpc[p] = "done"
            /\ bres[p] # NoResult

\* C9 witness: the invocation returned after its last task, one that timed
\* out, completed; the first task to complete had answered normally.
C9_Witness ==
    /\ gpc = "returned"
    /\ Len(order) = Len(Providers)
    /\ outcome[order[1]] = "ok"
    /\ outcome[order[Len(order)]] = "timeout"

\* What the task of p produces, from p's own secret, outcome and body alone.
OwnContent(p) ==
    IF Unconfigured(p) THEN NotConfigured(p)
    ELSE CASE outcome[p] = "ok" -> Strip(body[p])
           [] outcome[p] = "status" -> StatusFallback(p)
           [] outcome[p] = "client_error" -> ClientErrorFallback(p)
           [] OTHER -> ErrorFallback(p)

\* C10: within one invocation a step of one task (its failure included)
\* changes no other task's position, outcome or result, no task is ever
\* cancelled, and each task's own content is returned at its own position.
C10_BranchIsolation ==
    /\ [](\A p \in ProviderSet : bpc[p] \in {"idle", "pending", "awaiting", "done"})
    /\ [](gpc = "returned" =>
            \A p \in ProviderSet : response[Position(p)].content = OwnContent(p))
    /\ [][\A p \in ProviderSet :
            (gpc = "gathering" /\ bpc'[p] # bpc[p]) =>
                \A q \in ProviderSet \ {p} :
                    /\ bpc'[q] = bpc[q]
                    /\ bres'[q] = bres[q]
                    /\ outcome'[q] = outcome[q]]_vars

\* C10 witness: a task failed first, while the others were still in flight,
\* and the task that completed last answered normally and has its joke at
\* its position of the returned list.
C10_Witness ==
    /\ gpc = "returned"
    /\ Len(order) = Len(Providers)
    /\ Failed(order[1])
    /\ outcome[order[Len(order)]] = "ok"
    /\ response[Position(order[Len(order)])].content = Strip(body[order[Len(order)]])

\* C11: for each of OpenAI, Anthropic and Gemini, when its secret is absent
\* its task never posts a request (it is never in flight and no call outcome
\* is ever recorded for it), its result is that provider's fixed "API key not
\* configured" string, and the invocation still returns normally.
C11_AbsentSecretNoCall ==
    \A p \in DOMAIN apiKey :
        apiKey[p] = "" =>
            /\ bpc[p] # "awaiting"
            /\ outcome[p] = "none"
            /\ bpc[p] = "done" => bres[p] = Value(NotConfigured(p))
            /\ gpc # "http500"
            /\ gpc = "returned" => response[Position(p)].content = NotConfigured(p)

\* C11 witness: an invocation returned with the OpenAI secret absent and the
\* Gemini secret present, Gemini having answered normally.
C11_Witness ==
    /\ gpc = "returned"
    /\ apiKey["OpenAI"] = ""
    /\ response[Position("OpenAI")].content = "OpenAI API key not configured"
    /\ apiKey["Gemini"] # ""
    /\ outcome["Gemini"] = "ok"

\* C12: when a provider's request exceeds its timeout, its task resolves to
\* that provider's fallback string, and the step changes no other task's
\* position, outcome or result; the other three contents are returned
\* unchanged at their positions.
C12_TimeoutBecomesFallback ==
    /\ [](\A p \in ProviderSet :
            outcome[p] = "timeout" =>
                /\ bpc[p] = "done"
                /\ bres[p] = Value(ErrorFallback(p))
                /\ gpc = "returned" =>
                      /\ response[Position(p)].content = ErrorFallback(p)
                      /\ \A q \in ProviderSet \ {p} :
                            response[Position(q)].content = OwnContent(q))
    /\ [][\A p \in ProviderSet :
            (outcome[p] # "timeout" /\ outcome'[p] = "timeout") =>
                \A q \in ProviderSet \ {p} :
                    /\ bpc'[q] = bpc[q]
                    /\ bres'[q] = bres[q]
                    /\ outcome'[q] = outcome[q]]_vars

\* C12 witness: an invocation returned in which Llama timed out and the
\* three other providers answered normally, each joke at its position.
C12_Witness ==
    /\ gpc = "returned"
    /\ outcome["Llama"] = "timeout"
    /\ response[Position("Llama")].content = "Llama is taking a humor siesta!"
    /\ \A q \in ProviderSet \ {"Llama"} :
          /\ outcome[q] = "ok"
          /\ response[Position(q)].content = Strip(body[q])

\* C13: get_scores() always returns a mapping whose keys are exactly OpenAI,
\* Anthropic, Gemini and Llama, also when its query fails; on an empty ledger
\* every value is 0, and when the query succeeds the value of each provider
\* is the number of rows whose model_name is that provider.
C13_ScoresCountRowsPerProvider ==
    /\ \A up \in BOOLEAN :
          DOMAIN get_scores(up) = {"OpenAI", "Anthropic", "Gemini", "Llama"}
    /\ Len(votes) = 0 =>
          \A up \in BOOLEAN : \A m \in DOMAIN get_scores(up) : get_scores(up)[m] = 0
    /\ \A m \in {"OpenAI", "Anthropic", "Gemini", "Llama"} :
          get_scores(TRUE)[m] = Cardinality({i \in 1..Len(votes) : votes[i].model_name = m})

\* C13 witness: two sessions have voted for the same provider, which scores
\* 2 while a provider nobody voted for scores 0.
C13_Witness ==
    /\ Len(votes) = 2
    /\ votes[1].model_name = "OpenAI" /\ votes[2].model_name = "OpenAI"
    /\ get_scores(TRUE)["OpenAI"] = 2
    /\ get_scores(TRUE)["Llama"] = 0

StorageErrors == {MsgPgDown, MsgPgTooLong, MsgSqliteSyntax}

\* C14: record_vote returns normally only when its row has been inserted and
\* committed; a storage failure that is not a uniqueness violation reaches
\* the caller as the storage error itself, never as the duplicate-vote error
\* and never as a normal return, and then no row is added.
C14_NoSilentDrop ==
    /\ [](\A r \in Requests :
            raised[r] = Returned =>
                \E i \in 1..Len(votes) :
                    /\ votes[i].session_id = arg[r].session_id
                    /\ votes[i].model_name = arg[r].model)
    /\ [][\A r \in Requests :
            (raised[r] = NotCalled /\ raised'[r] # NotCalled) =>
                /\ raised'[r] \in {Returned, MsgAlreadyVoted} \cup StorageErrors
                /\ raised'[r] = Returned =>
                      /\ pc[r] = "commit"
                      /\ votes' = Append(votes, tx[r])
                /\ raised'[r] # Returned => votes' = votes
                /\ raised'[r] = MsgAlreadyVoted => RowIndexes(arg[r].session_id) # {}
                /\ raised'[r] \in StorageErrors => resp'[r] = 500]_vars

\* C14 witness: one record_vote failed on an unreachable server and left no
\* row for its session, while another one returned with its row committed.
C14_Witness ==
    \E r, q \in Requests :
        /\ raised[r] = MsgPgDown
        /\ RowIndexes(arg[r].session_id) = {}
        /\ raised[q] = Returned
        /\ RowIndexes(arg[q].session_id) # {}

\* C15: when the storage statement of a read operation fails, the operation
\* still returns a value, and that value is its default: has_voted gives
\* FALSE, get_scores gives the four providers at 0, get_total_votes gives 0.
C15_ReadsDegradeToDefaults ==
    \A up \in BOOLEAN :
        /\ \A s \in SessionInputs :
              /\ has_voted(s, up) \in BOOLEAN
              /\ ParamStatementError(up) # NoError => has_voted(s, up) = FALSE
        /\ get_total_votes(up) \in Nat
        /\ PlainStatementError(up) # NoError =>
              /\ get_scores(up) = [m \in {"OpenAI", "Anthropic", "Gemini", "Llama"} |-> 0]
              /\ get_total_votes(up) = 0

\* C15 witness: rows exist and the server is unreachable: the three reads
\* give their defaults where a reachable server gives the stored values, and
\* a request that went past the failed has_voted met the failure in record_vote.
C15_Witness ==
    /\ backend = "postgres"
    /\ Len(votes) > 0
    /\ votes[1].model_name = "OpenAI"
    /\ PlainStatementError(FALSE) # NoError
    /\ has_voted(votes[1].session_id, TRUE) /\ ~has_voted(votes[1].session_id, FALSE)
    /\ get_scores(TRUE)["OpenAI"] > 0 /\ get_scores(FALSE)["OpenAI"] = 0
    /\ get_total_votes(TRUE) > 0 /\ get_total_votes(FALSE) = 0
    /\ \E r \in Requests :
          /\ raised[r] = MsgPgDown
          /\ arg[r].session_id = votes[1].session_id

\* C16: the ledger is append-only: every step keeps each existing row, with
\* its session, model name and timestamp, at its place, and the number of
\* rows never decreases.
C16_AppendOnly ==
    [][/\ Len(votes') >= Len(votes)
       /\ \A i \in 1..Len(votes) : votes'[i] = votes[i]]_vars

\* C16 witness: a row committed first is still there, unchanged and older,
\* after a second vote for the same provider has been committed.
C16_Witness ==
    /\ Len(votes) = 2
    /\ votes[1].model_name = votes[2].model_name
    /\ votes[1].session_id # votes[2].session_id
    /\ votes[1].timestamp <= votes[2].timestamp
    /\ \A r \in Requests : pc[r] = "done"

\* C17 (as claimed): a record_vote naming a model outside the four known
\* providers, for a session that got no row from another request and without
\* a failure of the environment, returns with its row stored: has_voted is
\* then true of the session, and the step that stores the row leaves
\* get_scores() as it was.
C17_UnknownModelRecorded ==
    /\ [](\A r \in Requests :
            ( /\ CalledRecordVote(r)
              /\ arg[r].model \notin KnownModels
              /\ ~EnvironmentFailure(r)
              /\ \A q \in Requests \ {r} :
                    ~(raised[q] = Returned /\ arg[q].session_id = arg[r].session_id) )
            => /\ raised[r] = Returned
               /\ \E i \in RowIndexes(arg[r].session_id) :
                     votes[i].model_name = arg[r].model
               /\ has_voted(arg[r].session_id, TRUE))
    /\ [][\A r \in Requests :
            (raised[r] = NotCalled /\ raised'[r] = Returned /\ arg[r].model \notin KnownModels)
            => get_scores(TRUE)' = get_scores(TRUE)]_vars

\* C18: every invocation of generate_jokes eventually returns its response,
\* also when no provider ever answers: each request that was sent ends, at
\* the latest by its total timeout, so the join is reached.
C18_EveryInvocationReturns ==
    (gpc = "gathering") ~> (gpc = "returned")

\* C18 witness: an invocation returned although none of the four providers
\* answered: every request ended by its timeout.
C18_Witness ==
    /\ gpc = "returned"
    /\ \A p \in ProviderSet : outcome[p] = "timeout"
    /\ Len(response) = 4

\* C19 (as claimed): once a record_vote call has completed, by returning, by
\* the duplicate-vote error or by a storage error, neither the connection nor
\* the transaction it opened is still open.
C19_ConnectionReleased ==
    \A r \in Requests :
        CalledRecordVote(r) => (conn[r] # "open" /\ tx[r] = NoRow)

\* C20: whatever the interleaving of the POST vote requests, at most one
\* request per session is answered 200 'Vote recorded successfully', and a
\* request answered 200 has its row, with its session and its model, in the
\* ledger.
C20_OneSuccessPerSession ==
    /\ \A s \in SessionInputs :
          Cardinality({r \in Requests : resp[r] = 200 /\ arg[r].session_id = s}) <= 1
    /\ \A r \in Requests :
          resp[r] = 200 =>
              \E i \in 1..Len(votes) :
                  /\ votes[i].session_id = arg[r].session_id
                  /\ votes[i].model_name = arg[r].model

\* C20 witness: two requests of one session raced past has_voted with
\* different models; one was answered 200 and its model is the one stored,
\* the other's INSERT was refused and it was not answered 200.
C20_Witness ==
    \E r, q \in Requests :
        /\ r # q
        /\ arg[r].session_id = arg[q].session_id
        /\ arg[r].model # arg[q].model
        /\ resp[r] = 200
        /\ raised[q] = MsgAlreadyVoted /\ resp[q] # 200
        /\ \A i \in RowIndexes(arg[r].session_id) : votes[i].model_name = arg[r].model
        /\ RowIndexes(arg[r].session_id) # {}

\* C21: the reads has_voted, get_scores and get_total_votes leave the rows of
\* the ledger as they are, whether their statement is answered or fails; a
\* record_vote that raises leaves them too; the only step that changes the
\* ledger is a record_vote that returns, and it adds exactly one row, its own.
C21_OnlyRecordVoteWrites ==
    [][/\ \A r \in Requests : (pc[r] = "idle" /\ pc'[r] # "idle") => votes' = votes
       /\ \A r \in Requests :
             (raised[r] = NotCalled /\ raised'[r] \notin {NotCalled, Returned}) => votes' = votes
       /\ \A r \in Requests :
             (raised[r] = NotCalled /\ raised'[r] = Returned) => Len(votes') = Len(votes) + 1
       /\ votes' # votes =>
             \E r \in Requests :
                /\ raised[r] = NotCalled /\ raised'[r] = Returned
                /\ Len(votes') = Len(votes) + 1
                /\ SubSeq(votes', 1, Len(votes)) = votes
                /\ votes'[Len(votes')].session_id = arg[r].session_id
                /\ votes'[Len(votes')].model_name = arg[r].model]_vars

\* C21 witness: one record_vote returned and its row is the only one, after
\* a has_voted of another request read that row and the request was turned
\* away with 400.
C21_Witness ==
    \E r, q \in Requests :
        /\ raised[r] = Returned
        /\ resp[q] = 400 /\ raised[q] = NotCalled
        /\ arg[q].session_id = arg[r].session_id
        /\ Len(votes) = 1
        /\ votes[1].session_id = arg[r].session_id
        /\ votes[1].model_name = arg[r].model
====
